---- MODULE Spec2Model ----
(***************************************************************************)
(* A model of bevy_vox_scene: the palette compiler (src/model/palette.rs), *)
(* the load pipeline (src/load/mod.rs), the scene-graph name resolver      *)
(* (src/loader.rs) and the region edit issued by the voxel-collisions      *)
(* example.                                                                *)
(*                                                                         *)
(* f32 values are fixed-point integers in units of 1/10000 (One = 1.0).    *)
(* Option<T> is a sequence: None is << >>, Some(x) is <<x>>.               *)
(* A Vec is a sequence; the source's 0-based index i is At(v, i).          *)
(***************************************************************************)
EXTENDS Integers, Sequences, FiniteSets, TLC

VARIABLES
    pc,             \* position in process_vox_file / the palette API call
    file,           \* the decoded DotVoxData (palette, materials, models)
    settings,       \* VoxLoaderSettings
    newArg,         \* the Vec handed to VoxelPalette::new
    palette,        \* the VoxelPalette (its elements), << >> before it exists
    ior_for_voxel,  \* HashMap<u8, f32> returned by ior_for_voxel()
    models,         \* per loaded model: its name and material variant
    translucent_material, \* the StandardMaterial returned by _create_material
    images,         \* the images handed to get_handle, in call order
    opaque_material, \* the material registered under the label "material"
    load_context,   \* the labels registered in the LoadContext, in order
    outcome         \* how the call ended: "none", "ok", "decode_error", "panic"

loadVars == <<pc, file, settings, newArg, palette, ior_for_voxel, models,
              translucent_material, images, opaque_material, load_context, outcome>>

VARIABLES
    spc,            \* position in the scene-graph resolution
    graph,          \* file.scenes: the Vec<SceneNode> of the file
    numModels,      \* file.models.len()
    calls,          \* the calls of parse_scene_graph made so far: <<node, node_name>>
    named_models,   \* the Vec<NamedModel> parse_scene_graph returned
    model_names,    \* model index -> Option<String> (load/mod.rs)
    final_names,    \* model index -> the name its sub-assets are labelled with
    subasset_by_name, \* HashMap<String, VoxelNode>: composed name -> node (load/mod.rs)
    labeled_meshes, \* the meshes VoxLoader registered: label -> model id (loader.rs)
    default_mesh    \* VoxLoader's default_mesh: Some(0) once model 0 is meshed

sceneVars == <<spc, graph, numModels, calls, named_models, model_names, final_names,
               subasset_by_name, labeled_meshes, default_mesh>>

VARIABLES
    grid,           \* the edited model's voxels: coordinate -> Voxel, << >> when none
    voxel_model,    \* the VoxelModel's handles: model, mesh, material, palette
    queue,          \* the queued modify_voxel_model commands
    issued,         \* the number of commands issued so far
    before,         \* grid and mesh as the last applied edit found them
    last,           \* the last applied command, << >> when none
    result          \* how the last applied command ended

editVars == <<grid, voxel_model, queue, issued, before, last, result>>

VARIABLES
    mpc,            \* position in the meshing of one model
    mesh_input,     \* the model handed to load_from_model: its size and voxels
    outer_faces,    \* the mesh_outer_faces flag handed to load_from_model
    mesh            \* the result of mesh_model, << >> before it has run

meshVars == <<mpc, mesh_input, outer_faces, mesh>>

vars == <<loadVars, sceneVars, editVars, meshVars>>

----------------------------------------------------------------------------
(* Helpers for Option and Vec *)

None == << >>
Some(x) == <<x>>
IsSome(o) == o # None
UnwrapOr(o, d) == IF o = None THEN d ELSE o[1]

At(v, i) == v[i + 1]
Min(a, b) == IF a < b THEN a ELSE b
MaxOf(S) == CHOOSE m \in S : \A x \in S : x <= m

----------------------------------------------------------------------------
(* Program constants *)

\* 1.0 in fixed point
One == 10000
\* elements.resize_with(256, ...)
PaletteSize == 256
\* index as u8
U8Range == 256
\* VoxelElement::default()
DefaultRoughness == 5000
DefaultRefraction == 15000
\* VoxLoaderSettings::default()
DefaultEmissionStrength == 20000
DefaultDiffuseRoughness == 8000

\* update_snow: flake_radius, and the snow material Voxel(234)
FlakeRadius == 2
SnowVoxel == 234
\* Voxel::EMPTY
EMPTY == 0

\* Color::PINK as 8-bit RGBA
PINK == <<255, 20, 147, 255>>

\* _create_material: the threshold 0.001 of has_roughness, has_metalness and
\* has_translucency
Epsilon == 10
\* u16::MAX
U16Max == 65535
\* u8::MAX, the scale of an 8-bit colour channel
U8Max == 255

----------------------------------------------------------------------------
(* Bounds of the model *)

\* longest Vec handed to the palette: PaletteSize + MaxExtra
MaxExtra == 1
\* most models in one file
MaxModels == 2
\* most nodes in one scene graph
MaxNodes == 3
\* height (y extent) of the edited model
GridH == 3
\* most edit commands issued in one run
MaxEdits == 1
\* largest extent of a meshed model on each axis
MeshMax == 2

----------------------------------------------------------------------------
(* palette.rs: VoxelElement and VoxelPalette *)

VoxelElementDefault ==
    [color |-> PINK,
     emission |-> 0,
     roughness |-> DefaultRoughness,
     metalness |-> 0,
     translucency |-> 0,
     refraction_index |-> DefaultRefraction]

\* Vec::resize_with that only ever grows
ResizeWithNoTruncate(v, n, d) ==
    IF Len(v) >= n THEN v ELSE v \o [i \in 1..(n - Len(v)) |-> d]

\* Vec::resize_with(n, f): truncate to n, or pad with f() up to n
ResizeWith(v, n, d) ==
    IF Len(v) >= n THEN SubSeq(v, 1, n) ELSE v \o [i \in 1..(n - Len(v)) |-> d]

\* VoxelPalette::new
New(elements) == [elements |-> ResizeWith(elements, PaletteSize, VoxelElementDefault)]

\* fixed-point product of two f32
Mul(a, b) == (a * b) \div One

\* Color::rgba_u8
RgbaU8(c) == <<c[1], c[2], c[3], c[4]>>

\* the closure of new_from_data taking the stored refractive index as it is
ElementFromMaterialRawRi(color, material, diffuse_roughness, emission_strength) ==
    [color |-> RgbaU8(color),
     emission |-> Mul(Mul(UnwrapOr(material.emission, 0),
                          UnwrapOr(material.radiant_flux, 0) + One),
                      emission_strength),
     roughness |-> IF material.material_type = Some("_diffuse")
                   THEN diffuse_roughness
                   ELSE UnwrapOr(material.roughness, 0),
     metalness |-> UnwrapOr(material.metalness, 0),
     translucency |-> UnwrapOr(material.opacity, 0),
     refraction_index |-> UnwrapOr(material.refractive_index, 0)]

\* the closure of new_from_data: one (color, material) pair to a VoxelElement
ElementFromMaterial(color, material, diffuse_roughness, emission_strength) ==
    [color |-> RgbaU8(color),
     emission |-> Mul(Mul(UnwrapOr(material.emission, 0),
                          UnwrapOr(material.radiant_flux, 0) + One),
                      emission_strength),
     roughness |-> IF material.material_type = Some("_diffuse")
                   THEN diffuse_roughness
                   ELSE UnwrapOr(material.roughness, 0),
     metalness |-> UnwrapOr(material.metalness, 0),
     translucency |-> UnwrapOr(material.opacity, 0),
     refraction_index |-> IF material.material_type = Some("_glass")
                          THEN One + UnwrapOr(material.refractive_index, 0)
                          ELSE 0]

\* data.palette.iter().zip(data.materials.iter()).map(..).collect()
ZipMap(data, diffuse_roughness, emission_strength) ==
    [i \in 1..Min(Len(data.palette), Len(data.materials)) |->
        ElementFromMaterial(data.palette[i], data.materials[i],
                            diffuse_roughness, emission_strength)]

\* VoxelPalette::new_from_data
NewFromData(data, diffuse_roughness, emission_strength) ==
    New(ZipMap(data, diffuse_roughness, emission_strength))

\* ior_for_voxel with the test on translucency admitting zero
IorForVoxelGe(p) ==
    LET hits == {i \in 0..(Len(p.elements) - 1) : At(p.elements, i).translucency >= 0}
        keys == {i % U8Range : i \in hits}
    IN  [k \in keys |->
            At(p.elements, MaxOf({i \in hits : i % U8Range = k})).refraction_index]

\* VoxelPalette::ior_for_voxel: insert (index as u8, refraction_index) for every
\* element with translucency > 0.0, a later insert replacing an earlier one
IorForVoxel(p) ==
    LET hits == {i \in 0..(Len(p.elements) - 1) : At(p.elements, i).translucency > 0}
        keys == {i % U8Range : i \in hits}
    IN  [k \in keys |->
            At(p.elements, MaxOf({i \in hits : i % U8Range = k})).refraction_index]

\* data.visible_voxels(&ior_for_voxel).1: Some(ior) when a voxel of the model
\* uses a palette index that ior_for_voxel holds, None otherwise. The value is
\* the refraction index of the model's translucent voxels (here the largest).
VisibleVoxelsIor(data, iors) ==
    LET hit == {v \in data.voxels : v \in DOMAIN iors}
    IN  IF hit = {} THEN None ELSE Some(MaxOf({iors[v] : v \in hit}))

\* material selection that hands every model the shared opaque material
SelectMaterialOpaque(name, model, ior) ==
    [label |-> "material", variant |-> "opaque", ior |-> None, thickness |-> None]

\* process_vox_file, `let material = if let Some(ior) = ior {..} else {..}`
SelectMaterial(name, model, ior) ==
    IF IsSome(ior)
    THEN [label |-> name \o "@material",
          variant |-> "translucent",
          ior |-> ior,
          thickness |-> Some(Min(model.size[1], Min(model.size[2], model.size[3])))]
    ELSE [label |-> "material", variant |-> "opaque", ior |-> None, thickness |-> None]

----------------------------------------------------------------------------
(* palette.rs: VecComparable and _create_material *)

\* an f32 that is not a number; every other f32 of the model is >= 0
NaN == 0 - (One * One)
IsNaN(x) == x = NaN

\* a comparison that orders NaN below every number
PartialCmpTotal(a, b) ==
    Some(IF a < b THEN "Less" ELSE IF a = b THEN "Equal" ELSE "Greater")

\* f32::partial_cmp: None when either side is NaN
PartialCmp(a, b) ==
    IF IsNaN(a) \/ IsNaN(b) THEN None
    ELSE Some(IF a < b THEN "Less" ELSE IF a = b THEN "Equal" ELSE "Greater")

\* the outcome of a call: a panic, or the value returned
Panicked == [panic |-> TRUE, value |-> 0]
Returned(x) == [panic |-> FALSE, value |-> x]

\* the fold of max_by / min_by compares the running result with every element
\* from the second on and panics (.expect) at the first comparison that is
\* None; the running result is v[1] or an element already compared, so a
\* comparison is None exactly when v[1] or the element is NaN
FoldPanics(v) == \E i \in 2..Len(v) : PartialCmp(v[1], v[i]) = None

\* the values of a Vec<f32>
Values(v) == {v[i] : i \in 1..Len(v)}

\* Iterator::max_by(|a, b| a.partial_cmp(b).expect("tried to compare NaN"))
MaxBy(v) ==
    IF FoldPanics(v) THEN Panicked
    ELSE Returned(CHOOSE m \in Values(v) :
                    \A x \in Values(v) : PartialCmp(m, x) # Some("Less"))

\* Iterator::min_by(|a, b| a.partial_cmp(b).expect("tried to compare NaN"))
MinBy(v) ==
    IF FoldPanics(v) THEN Panicked
    ELSE Returned(CHOOSE m \in Values(v) :
                    \A x \in Values(v) : PartialCmp(m, x) # Some("Greater"))

\* max_element / min_element: .unwrap() panics on an empty Vec
MaxElement(v) == IF v = << >> THEN Panicked ELSE MaxBy(v)
MinElement(v) == IF v = << >> THEN Panicked ELSE MinBy(v)

\* (b * u16::MAX as f32) as u16: the cast truncates and saturates
QuantizeU16(b) ==
    LET q == (b * U16Max) \div One
    IN  IF q > U16Max THEN U16Max ELSE IF q < 0 THEN 0 ELSE q

\* (color * emission).as_rgba_f32(): the colour channels scaled, alpha kept
EmissionPixel(color, emission) ==
    <<(color[1] * emission) \div U8Max, (color[2] * emission) \div U8Max,
      (color[3] * emission) \div U8Max, (color[4] * One) \div U8Max>>

WHITE == "Color::WHITE"
BLACK == "Color::BLACK"

\* has_emission with the threshold of the other channels
HasEmissionAboveEpsilon(max_emission) == max_emission > Epsilon

\* let has_emission = emission_data.max_element() > 0.0
HasEmission(max_emission) == max_emission > 0

\* the threshold test with an epsilon of 0.01
VariesCoarse(max, min) == max - min > 10 * Epsilon

\* the threshold test admitting a range of exactly the epsilon
VariesAtLeast(max, min) == max - min >= Epsilon

\* max - min > 0.001
Varies(max, min) == max - min > Epsilon

\* the scalar factor that is 1.0 whether or not a texture carries the values
FactorAlwaysOne(has_texture, max) == One

\* the scalar factor of a channel: 1.0 beside a texture, the maximum otherwise
Factor(has_texture, max) == IF has_texture THEN One ELSE max

\* _create_material(get_handle): the StandardMaterial and, in call order, the
\* images handed to get_handle; a panic when a comparison meets NaN
CreateMaterial(p) ==
    LET e == p.elements
        color_data        == [i \in DOMAIN e |-> e[i].color]
        emission_data     == [i \in DOMAIN e |-> e[i].emission]
        roughness_data    == [i \in DOMAIN e |-> e[i].roughness]
        metalness_data    == [i \in DOMAIN e |-> e[i].metalness]
        translucency_data == [i \in DOMAIN e |-> e[i].translucency]
        max_roughness     == MaxElement(roughness_data)
        max_metalness     == MaxElement(metalness_data)
        max_translucency  == MaxElement(translucency_data)
        max_emission      == MaxElement(emission_data)
        min_roughness     == MinElement(roughness_data)
        min_metalness     == MinElement(metalness_data)
        min_translucency  == MinElement(translucency_data)
    IN  IF \/ max_roughness.panic \/ max_metalness.panic \/ max_translucency.panic
           \/ max_emission.panic
           \/ min_roughness.panic \/ min_metalness.panic \/ min_translucency.panic
        THEN [panic |-> TRUE]
        ELSE
        LET has_emission == HasEmission(max_emission.value)
            has_roughness == Varies(max_roughness.value, min_roughness.value)
            has_metalness == Varies(max_metalness.value, min_metalness.value)
            has_roughness_metalness == has_roughness \/ has_metalness
            has_translucency == Varies(max_translucency.value, min_translucency.value)
            base_color == <<[name |-> "material_color", pixels |-> color_data]>>
            emissive ==
                IF has_emission
                THEN <<[name |-> "material_emission",
                        pixels |-> [i \in DOMAIN e |->
                                        EmissionPixel(e[i].color, e[i].emission)]]>>
                ELSE << >>
            metallic_roughness ==
                IF has_roughness_metalness
                THEN <<[name |-> "material_metallic_roughness",
                        texels |-> [i \in DOMAIN e |->
                                        <<0, e[i].roughness, e[i].metalness, 0>>],
                        pixels |-> [i \in DOMAIN e |->
                                        <<0, QuantizeU16(e[i].roughness),
                                          QuantizeU16(e[i].metalness), 0>>]]>>
                ELSE << >>
            specular_transmission ==
                IF has_translucency
                THEN <<[name |-> "material_specular_transmission",
                        texels |-> [i \in DOMAIN e |-> e[i].translucency],
                        pixels |-> [i \in DOMAIN e |-> QuantizeU16(e[i].translucency)]]>>
                ELSE << >>
        IN  [panic |-> FALSE,
             images |-> base_color \o emissive \o metallic_roughness
                            \o specular_transmission,
             material |->
                [base_color_texture |-> Some("material_color"),
                 emissive |-> IF has_emission THEN WHITE ELSE BLACK,
                 emissive_texture |->
                    IF has_emission THEN Some("material_emission") ELSE None,
                 perceptual_roughness |->
                    Factor(has_roughness_metalness, max_roughness.value),
                 metallic |-> Factor(has_roughness_metalness, max_metalness.value),
                 metallic_roughness_texture |->
                    IF has_roughness_metalness
                    THEN Some("material_metallic_roughness") ELSE None,
                 specular_transmission |->
                    Factor(has_translucency, max_translucency.value),
                 specular_transmission_texture |->
                    IF has_translucency
                    THEN Some("material_specular_transmission") ELSE None,
                 ior |-> "default",
                 thickness |-> "default"]]

\* the opaque material as a plain clone of the translucent one
OpaqueMaterialClone(translucent) == translucent

\* process_vox_file: the opaque material, a clone of the translucent one with
\* the transmission texture dropped and the transmission set to 0.0
OpaqueMaterial(translucent) ==
    [translucent EXCEPT !.specular_transmission_texture = None,
                                 !.specular_transmission = 0]

\* the names under which the images were handed to get_handle
ImageNames(imgs) == [i \in 1..Len(imgs) |-> imgs[i].name]

\* the material of one model: the translucent clone with this model's ior and
\* thickness, or the shared opaque material
ModelMaterial(translucent, opaque, ior, model) ==
    IF IsSome(ior)
    THEN [translucent EXCEPT
            !.ior = ior[1],
            !.thickness = Min(model.size[1], Min(model.size[2], model.size[3]))]
    ELSE opaque

\* a model loop that registers a material of its own for every model
ModelLabelsAll(name, selected) ==
    <<name \o "@mesh", name \o "@material", name \o "@model">>

\* the labels one iteration of the model loop registers, in order
ModelLabels(name, selected) ==
    <<name \o "@mesh">>
        \o (IF selected.variant = "translucent" THEN <<selected.label>> ELSE << >>)
        \o <<name \o "@model">>

\* the orders in which a HashMap may hand out the keys S
RECURSIVE Orders(_)
Orders(S) ==
    IF S = {} THEN {<< >>}
    ELSE UNION {{<<k>> \o rest : rest \in Orders(S \ {k})} : k \in S}

----------------------------------------------------------------------------
(* loader.rs: parse_scene_graph *)

\* format!("{}", n) for an unsigned integer
Digit(d) ==
    CASE d = 0 -> "0" [] d = 1 -> "1" [] d = 2 -> "2" [] d = 3 -> "3" [] d = 4 -> "4"
      [] d = 5 -> "5" [] d = 6 -> "6" [] d = 7 -> "7" [] d = 8 -> "8" [] d = 9 -> "9"

RECURSIVE FormatInt(_)
FormatInt(n) == IF n < 10 THEN Digit(n) ELSE FormatInt(n \div 10) \o Digit(n % 10)

\* the Transform arm with the inherited name dropped when both are present
TransformHandleLocalOnly(node_name, local) ==
    IF local = None THEN node_name ELSE local

\* the Transform arm: match (node_name, &attributes.get("_name"))
TransformHandle(node_name, local) ==
    CASE node_name = None /\ local = None -> None
      [] node_name = None /\ local # None -> Some(local[1])
      [] node_name # None /\ local = None -> Some(node_name[1])
      [] node_name # None /\ local # None -> Some(node_name[1] \o "-" \o local[1])

\* the Shape arm with the new loader's hyphenated fallback
ShapeHandleHyphen(node_name, model) ==
    IF node_name # None THEN node_name[1] ELSE "model-" \o FormatInt(model.model_id)

\* the Shape arm: the name given to one model reference
ShapeHandle(node_name, model) ==
    IF node_name # None THEN node_name[1] ELSE "model" \o FormatInt(model.model_id)

\* the Group arm handing its own name down instead of the one that reached it
GroupNameOwn(node_name, node) == node.name

\* the Group arm: the name handed to every child
GroupName(node_name, node) == node_name

\* parse_scene_graph(graph, &graph[n], node_name): the Vec<NamedModel> it
\* returns (named) and, in call order, the calls it makes (calls)
RECURSIVE ParseSceneGraph(_, _, _)
RECURSIVE ParseChildren(_, _, _, _)
ParseSceneGraph(g, n, node_name) ==
    LET node == At(g, n)
        self == <<[node |-> n, node_name |-> node_name]>>
    IN  CASE node.kind = "Transform" ->
                LET r == ParseSceneGraph(g, node.child, TransformHandle(node_name, node.name))
                IN  [named |-> r.named, calls |-> self \o r.calls]
          [] node.kind = "Group" ->
                LET r == ParseChildren(g, node.children, GroupName(node_name, node), 1)
                IN  [named |-> r.named, calls |-> self \o r.calls]
          [] node.kind = "Shape" ->
                [named |-> [j \in 1..Len(node.models) |->
                                [name |-> ShapeHandle(node_name, node.models[j]),
                                 id |-> node.models[j].model_id]],
                 calls |-> self]

\* children.iter().flat_map(|child| parse_scene_graph(..)).collect(), from child j on
ParseChildren(g, children, node_name, j) ==
    IF j > Len(children)
    THEN [named |-> << >>, calls |-> << >>]
    ELSE LET head == ParseSceneGraph(g, children[j], node_name)
             rest == ParseChildren(g, children, node_name, j + 1)
         IN  [named |-> head.named \o rest.named, calls |-> head.calls \o rest.calls]

----------------------------------------------------------------------------
(* load/mod.rs: the names of the models *)

\* find_model_names(&mut model_names, &root): every model reference of a Shape
\* that a name reached records that name for its model index, in traversal
\* order (the inherited name is the same composition of Transform names)
RECURSIVE RecordNames(_, _, _, _)
RecordNames(names, g, cs, i) ==
    IF i > Len(cs) THEN names
    ELSE LET node == At(g, cs[i].node)
             inherited == cs[i].node_name
             ids == IF node.kind = "Shape" /\ inherited # None
                    THEN {node.models[j].model_id : j \in 1..Len(node.models)}
                    ELSE {}
         IN  RecordNames([k \in 1..Len(names) |->
                            IF (k - 1) \in ids THEN inherited ELSE names[k]],
                         g, cs, i + 1)

FindModelNames(n, g) ==
    RecordNames([k \in 1..n |-> None], g, ParseSceneGraph(g, 0, None).calls, 1)

\* maybe_name.clone().unwrap_or(format!("model-{}", index))
ModelName(maybe_name, index) ==
    UnwrapOr(maybe_name, "model-" \o FormatInt(index))

----------------------------------------------------------------------------
(* The name indexes: sub-scenes by name, meshes by label *)

\* an insert that keeps the entry a key already has
HashMapInsertKeepFirst(map, k, v) ==
    [n \in DOMAIN map \cup {k} |-> IF n \in DOMAIN map THEN map[n] ELSE v]

\* HashMap::insert: a later insert under the same key replaces the earlier one
HashMapInsert(map, k, v) ==
    [n \in DOMAIN map \cup {k} |-> IF n = k THEN v ELSE map[n]]

\* HashMap::new()
EmptyMap == [n \in {} |-> 0]

\* find_subasset_names(&mut subasset_by_name, &root): depth first, every
\* resolved Transform node that has a composed name is inserted under it
RECURSIVE RecordSubassets(_, _, _, _)
RecordSubassets(map, g, cs, i) ==
    IF i > Len(cs) THEN map
    ELSE LET node == At(g, cs[i].node)
             name == IF node.kind = "Transform"
                     THEN TransformHandle(cs[i].node_name, node.name)
                     ELSE None
         IN  RecordSubassets(IF name = None THEN map
                             ELSE HashMapInsert(map, name[1], cs[i].node),
                             g, cs, i + 1)

FindSubassetNames(g) ==
    RecordSubassets(EmptyMap, g, ParseSceneGraph(g, 0, None).calls, 1)

\* VoxLoader::process_vox_file, the loop over named_models: a model the file
\* does not hold is skipped, every other one is meshed and registered under
\* its name; default_mesh is the mesh of model 0
RECURSIVE LabelMeshes(_, _, _, _)
LabelMeshes(acc, named, n, i) ==
    IF i > Len(named) THEN acc
    ELSE LET nm == named[i]
         IN  IF nm.id >= n THEN LabelMeshes(acc, named, n, i + 1)
             ELSE LabelMeshes([labels |-> HashMapInsert(acc.labels, nm.name, nm.id),
                               default_mesh |-> IF nm.id = 0 THEN Some(0)
                                                ELSE acc.default_mesh],
                              named, n, i + 1)

----------------------------------------------------------------------------
(* Inputs: scene graphs *)

TransformNames == {None, Some("A"), Some("B")}
GroupNames == {None, Some("G")}
ShapeModel(id, name) == [model_id |-> id, name |-> name]
ShapeModelLists ==
    {<<ShapeModel(0, None)>>,
     <<ShapeModel(0, Some("B"))>>,
     <<ShapeModel(1, None), ShapeModel(12, None)>>}

\* the increasing sequences of the members of a set of node indices
RECURSIVE Ascending(_)
Ascending(S) ==
    IF S = {} THEN << >>
    ELSE LET m == CHOOSE x \in S : \A y \in S : x <= y
         IN  <<m>> \o Ascending(S \ {m})

\* the nodes that may stand at index i of a graph of n nodes: children lie at
\* higher indices, so the graph is acyclic
NodesAt(i, n) ==
    {[kind |-> "Shape", models |-> ms] : ms \in ShapeModelLists}
    \cup {[kind |-> "Group", name |-> nm, children |-> Ascending(cs)] :
            nm \in GroupNames, cs \in SUBSET ((i + 1)..(n - 1))}
    \cup {[kind |-> "Transform", name |-> nm, child |-> c] :
            nm \in TransformNames, c \in (i + 1)..(n - 1)}

\* the node sequences for indices i..n-1 of a graph of n nodes
RECURSIVE GraphsFrom(_, _)
GraphsFrom(i, n) ==
    IF i >= n THEN {<< >>}
    ELSE {<<node>> \o rest : node \in NodesAt(i, n), rest \in GraphsFrom(i + 1, n)}

Graphs == UNION {GraphsFrom(0, n) : n \in 1..MaxNodes}

ModelCounts == {2, 13}

----------------------------------------------------------------------------
(* The region edit: update_snow of examples/voxel-collisions.rs, and the *)
(* Region Editor it calls *)

\* the extent of the edited model
ModelSize == <<2, GridH, 1>>

Cells(size) ==
    {<<x, y, z>> : x \in 0..(size[1] - 1), y \in 0..(size[2] - 1), z \in 0..(size[3] - 1)}

\* pos - IVec3::Y
BelowOf(pos) == <<pos[1], pos[2] - 1, pos[3]>>

\* IVec3::distance_squared
DistanceSquared(a, b) ==
    (a[1] - b[1]) * (a[1] - b[1]) + (a[2] - b[2]) * (a[2] - b[2])
        + (a[3] - b[3]) * (a[3] - b[3])

\* model.get_voxel_at_point(p): Ok(voxel) inside the extent, Err outside
GetVoxelAtPoint(view, p) == IF p \in DOMAIN view THEN Some(view[p]) ELSE None

\* the closure update_snow hands to modify_voxel_model
SnowEdit(pos, voxel, view, vox_pos) ==
    IF /\ voxel = EMPTY
       /\ DistanceSquared(pos, vox_pos) <= FlakeRadius * FlakeRadius
       /\ GetVoxelAtPoint(view, BelowOf(pos)) # None
       /\ GetVoxelAtPoint(view, BelowOf(pos))[1] # EMPTY
    THEN SnowVoxel
    ELSE voxel

\* "set non-empty cells to material 5"
FillEdit(pos, voxel, view) == IF voxel # EMPTY THEN 5 ELSE voxel

ApplyFn(f, pos, voxel, view) ==
    IF f.kind = "snow" THEN SnowEdit(pos, voxel, view, f.vox_pos)
    ELSE FillEdit(pos, voxel, view)

\* VoxelRegion { origin: vox_pos - IVec3::splat(flake_radius),
\*               size: IVec3::splat(1 + (flake_radius * 2)) }
FlakeRegion(vox_pos) ==
    [origin |-> <<vox_pos[1] - FlakeRadius, vox_pos[2] - FlakeRadius,
                  vox_pos[3] - FlakeRadius>>,
     size |-> <<1 + (FlakeRadius * 2), 1 + (FlakeRadius * 2), 1 + (FlakeRadius * 2)>>]

\* a region that is accepted when no extent is negative
RegionIsValidNonNegative(region) == \A a \in 1..3 : region.size[a] >= 0

\* a VoxelRegion must have a positive extent on every axis
RegionIsValid(region) == \A a \in 1..3 : region.size[a] > 0

\* the coordinates an edit would visit if it ignored the region
RegionCoordsWholeModel(region, g) == DOMAIN g

\* the coordinates of the model that lie in the region
RegionCoords(region, g) ==
    {p \in DOMAIN g :
        \A a \in 1..3 : region.origin[a] <= p[a] /\ p[a] < region.origin[a] + region.size[a]}

Less(p, q) ==
    \/ p[1] < q[1]
    \/ p[1] = q[1] /\ p[2] < q[2]
    \/ p[1] = q[1] /\ p[2] = q[2] /\ p[3] < q[3]

\* the coordinates of S in ascending order
RECURSIVE InOrder(_)
InOrder(S) ==
    IF S = {} THEN << >>
    ELSE LET m == CHOOSE p \in S : \A q \in S \ {p} : Less(p, q)
         IN  <<m>> \o InOrder(S \ {m})

Reverse(q) == [i \in 1..Len(q) |-> q[Len(q) + 1 - i]]

\* the orders in which an edit may visit a region
VisitOrders(S) == {InOrder(S), Reverse(InOrder(S))}

\* a view that shows the writes made so far
EditViewLive(start, buffer) == buffer

\* the read-only view handed to the edit function: the grid as the edit found it
EditView(start, buffer) == start

\* the scan of the region: apply f at every coordinate, writing to the buffer
RECURSIVE ScanRegion(_, _, _, _, _)
ScanRegion(f, start, buffer, order, i) ==
    IF i > Len(order) THEN buffer
    ELSE LET pos  == order[i]
             view == EditView(start, buffer)
         IN  ScanRegion(f, start,
                        [buffer EXCEPT ![pos] = ApplyFn(f, pos, view[pos], view)],
                        order, i + 1)

\* the VoxelModel after an edit: the mesh is rebuilt, every handle is kept
EditedModel(m) == [m EXCEPT !.mesh = [@ EXCEPT !.version = @ + 1]]

----------------------------------------------------------------------------
(* Inputs: grids, snowflake positions, regions *)

Grids == [Cells(ModelSize) -> {EMPTY, 1}]

SnowPositions == {<<x, y, 0>> : x \in 0..(ModelSize[1] - 1), y \in 0..ModelSize[2]}

RegionSamples ==
    {[origin |-> o, size |-> sz] :
        o \in {<<0, 0, 0>>, <<1, 1, 0>>},
        sz \in {<<1, 2, 1>>, <<0, 2, 1>>, <<2, 0 - 1, 1>>, <<1, 1, 0>>}}

EditFunctions == {[kind |-> "fill"], [kind |-> "snow", vox_pos |-> <<0, 1, 0>>]}

NoGrid == << >>
NoModel == [handle |-> "", mesh |-> [handle |-> "", version |-> 0],
            material |-> "", palette |-> ""]
LoadedModel == [handle |-> "study.vox#scenery@model",
                mesh |-> [handle |-> "study.vox#scenery@mesh", version |-> 0],
                material |-> "study.vox#material",
                palette |-> "study.vox#material-palette"]

----------------------------------------------------------------------------
(* The edit commands *)

\* no model is being edited
EditIdle ==
    /\ grid = NoGrid
    /\ voxel_model = NoModel
    /\ queue = << >>
    /\ issued = 0
    /\ before = [grid |-> NoGrid, model |-> NoModel]
    /\ last = << >>
    /\ result = [status |-> "none", visited |-> 0]

----------------------------------------------------------------------------
(* The grid loader and the greedy mesher: load_from_model and mesh_model *)

\* the six axis directions
Dirs == {<<1, 0, 0>>, <<0 - 1, 0, 0>>, <<0, 1, 0>>, <<0, 0 - 1, 0>>,
         <<0, 0, 1>>, <<0, 0, 0 - 1>>}
Axis(d) == CHOOSE a \in 1..3 : d[a] # 0
Neighbor(c, d) == <<c[1] + d[1], c[2] + d[2], c[3] + d[3]>>

\* a face test that shows every outer face whatever the flag
FaceVisibleOuterAlways(voxels, c, d, outer) ==
    LET n == Neighbor(c, d)
    IN  IF n \in DOMAIN voxels THEN voxels[n] = EMPTY ELSE TRUE

\* the face of the solid voxel c towards d is visible iff the neighbouring
\* cell is empty, or is outside the model and mesh_outer_faces is true
FaceVisible(voxels, c, d, outer) ==
    LET n == Neighbor(c, d)
    IN  IF n \in DOMAIN voxels THEN voxels[n] = EMPTY ELSE outer

\* load_from_model(&model, mesh_outer_faces): the visible faces of the model
VisibleFaces(voxels, outer) ==
    {f \in [cell : DOMAIN voxels, dir : Dirs] :
        voxels[f.cell] # EMPTY /\ FaceVisible(voxels, f.cell, f.dir, outer)}

\* the two in-plane axes of a face whose normal lies along axis a
UAxis(a) == IF a = 1 THEN 2 ELSE 1
VAxis(a) == IF a = 3 THEN 2 ELSE 3

\* greedy run-length merging of the faces S of one orientation in one plane:
\* from the first free face, extend along u while the next face is free and of
\* the same material, then along v while the whole row is, and emit one quad
RECURSIVE MergeQuads(_, _, _)
MergeQuads(voxels, S, d) ==
    IF S = {} THEN {}
    ELSE LET u == UAxis(Axis(d))
             v == VAxis(Axis(d))
             start == CHOOSE c \in S :
                        \A q \in S : c[v] < q[v] \/ (c[v] = q[v] /\ c[u] <= q[u])
             mat == voxels[start]
             Shift(i, j) == [start EXCEPT ![u] = @ + i, ![v] = @ + j]
             Free(c) == c \in S /\ voxels[c] = mat
             w == CHOOSE k \in 1..Cardinality(S) :
                    /\ \A i \in 0..(k - 1) : Free(Shift(i, 0))
                    /\ ~Free(Shift(k, 0))
             RowFree(j) == \A i \in 0..(w - 1) : Free(Shift(i, j))
             h == CHOOSE k \in 1..Cardinality(S) :
                    /\ \A j \in 0..(k - 1) : RowFree(j)
                    /\ ~RowFree(k)
             covered == {Shift(i, j) : i \in 0..(w - 1), j \in 0..(h - 1)}
         IN  {[dir |-> d, origin |-> start, width |-> w, height |-> h, material |-> mat]}
                \cup MergeQuads(voxels, S \ covered, d)

\* the quads of every orientation and every plane
Quads(voxels, faces) ==
    UNION {MergeQuads(voxels,
                      {f.cell : f \in {g \in faces :
                                        g.dir = d /\ g.cell[Axis(d)] = plane}},
                      d) :
            d \in Dirs, plane \in {c[1] : c \in DOMAIN voxels}
                                    \cup {c[2] : c \in DOMAIN voxels}
                                    \cup {c[3] : c \in DOMAIN voxels}}

\* mesh_model(&visible_voxels, &data): four vertices and six indices a quad
MeshModel(voxels, outer) ==
    LET faces == VisibleFaces(voxels, outer)
        quads == Quads(voxels, faces)
    IN  [faces |-> faces, quads |-> quads,
         vertices |-> 4 * Cardinality(quads), indices |-> 6 * Cardinality(quads)]

\* the models handed to the mesher: the solid cuboid of every size, and the
\* cuboids with one cell emptied or of another material
MeshSizes == {<<x, y, z>> : x \in 1..MeshMax, y \in 1..MeshMax, z \in 1..MeshMax}
SolidCuboid(size) == [c \in Cells(size) |-> 1]
MeshInputs ==
    {[size |-> sz, voxels |-> SolidCuboid(sz)] : sz \in MeshSizes}
    \cup UNION {{[size |-> sz, voxels |-> [SolidCuboid(sz) EXCEPT ![c] = m]] :
                    c \in Cells(sz), m \in {EMPTY, 2}} : sz \in MeshSizes}

NoMeshInput == [size |-> <<0, 0, 0>>, voxels |-> << >>]

\* no model is being meshed
MeshIdle ==
    /\ mpc = "idle"
    /\ mesh_input = NoMeshInput
    /\ outer_faces = TRUE
    /\ mesh = << >>

----------------------------------------------------------------------------
(* Inputs: material tables, element vectors, models *)

Mat(type, emission, flux, rough, metal, opacity, ri) ==
    [material_type |-> type, emission |-> emission, radiant_flux |-> flux,
     roughness |-> rough, metalness |-> metal, opacity |-> opacity,
     refractive_index |-> ri]

MatDiffuse   == Mat(Some("_diffuse"), None, None, None, None, None, None)
MatGlass13   == Mat(Some("_glass"), None, None, Some(1000), None, Some(5000), Some(13000))
MatGlass03   == Mat(Some("_glass"), None, None, Some(1000), None, Some(5000), Some(3000))
MatBlend13   == Mat(Some("_blend"), None, None, Some(2000), Some(3000), Some(5000), Some(13000))
MatGlassZero == Mat(Some("_glass"), None, None, None, None, Some(0), Some(13000))
MatEmit      == Mat(Some("_emit"), Some(5000), Some(One), None, None, None, None)
\* a roughness the decoder parsed from the text "NaN"
MatNaN       == Mat(Some("_metal"), None, None, Some(NaN), Some(3000), None, None)

BaseMaterials == {MatDiffuse, MatGlassZero}
SpecialMaterials ==
    {MatDiffuse, MatGlass13, MatGlass03, MatBlend13, MatGlassZero, MatEmit, MatNaN}
SpecialIndices == {200}
MaterialLens == {0, 201, PaletteSize, PaletteSize + MaxExtra}

\* a distinct colour for every index
ColorAt(i) == <<i % U8Range, (255 - i) % U8Range, (7 * i) % U8Range, 255>>

MaterialTable(n, base, k, special) ==
    [i \in 1..n |-> IF i = k + 1 THEN special ELSE base]

MaterialTables ==
    {MaterialTable(n, base, k, special) :
        n \in MaterialLens, base \in BaseMaterials,
        k \in SpecialIndices, special \in SpecialMaterials}

\* the decoder hands over a palette of 256 colours
FilePalette == [i \in 1..PaletteSize |-> ColorAt(i - 1)]

VoxelSets == {{1}, {1, 200}}
ModelSizes == {<<4, 2, 3>>}
FileModels == {[size |-> s, voxels |-> vs] : s \in ModelSizes, vs \in VoxelSets}
ModelLists == UNION {[1..n -> FileModels] : n \in 0..MaxModels}

\* a file with no model has a root whose group is empty
EmptyGraph ==
    <<[kind |-> "Transform", name |-> None, child |-> 1],
      [kind |-> "Group", name |-> None, children |-> << >>]>>

\* the scene graphs of the loaded files: an unnamed model, and two named ones
LoadGraphs ==
    {<<[kind |-> "Transform", name |-> None, child |-> 1],
       [kind |-> "Shape", models |-> <<ShapeModel(0, None)>>]>>,
     <<[kind |-> "Transform", name |-> Some("A"), child |-> 1],
       [kind |-> "Group", name |-> None, children |-> <<2, 3>>],
       [kind |-> "Shape", models |-> <<ShapeModel(0, None)>>],
       [kind |-> "Transform", name |-> Some("B"), child |-> 4],
       [kind |-> "Shape", models |-> <<ShapeModel(1, None)>>]>>,
     EmptyGraph}

\* every model a Shape of g references is one of the n models of the file
GraphFits(g, n) ==
    \A i \in 1..Len(g) :
        g[i].kind = "Shape" =>
            \A j \in 1..Len(g[i].models) : g[i].models[j].model_id < n

Files ==
    {[palette |-> FilePalette, materials |-> m, models |-> ms] :
        m \in MaterialTables, ms \in ModelLists}

DefaultSettings ==
    [mesh_outer_faces |-> TRUE,
     emission_strength |-> DefaultEmissionStrength,
     uses_srgb |-> TRUE,
     diffuse_roughness |-> DefaultDiffuseRoughness]

\* element vectors for VoxelPalette::new
ElemOpaque == [color |-> PINK, emission |-> 1000, roughness |-> 2000,
               metalness |-> 3000, translucency |-> 0, refraction_index |-> 0]
ElemGlass  == [color |-> PINK, emission |-> 0, roughness |-> 1000,
               metalness |-> 0, translucency |-> 5000, refraction_index |-> 13000]
ElementSamples == {ElemOpaque, ElemGlass, VoxelElementDefault}
ElementLens == {0, 1, 255, PaletteSize} \cup {PaletteSize + e : e \in 1..MaxExtra}

ElementVec(n, base, k, special) ==
    [i \in 1..n |->
        [(IF i = k + 1 THEN special ELSE base) EXCEPT !.color = ColorAt(i - 1)]]

ElementVecs ==
    {ElementVec(n, base, k, special) :
        n \in ElementLens, base \in ElementSamples,
        k \in {0, 200, 255, PaletteSize}, special \in ElementSamples}

\* element vectors for create_material: every element is the base but one,
\* which differs from it by nothing, by the epsilon or by a little more in
\* each channel, or holds a NaN in one channel
ChannelSteps == {0, Epsilon, Epsilon + 1}
ChannelBases == {ElemOpaque, ElemGlass, VoxelElementDefault}
ChannelSpecials(base) ==
    {[base EXCEPT !.emission = @ + de, !.roughness = @ + dr,
                  !.metalness = @ + dm, !.translucency = @ + dt] :
        de \in ChannelSteps, dr \in ChannelSteps, dm \in ChannelSteps, dt \in ChannelSteps}
    \cup {[base EXCEPT !.emission = NaN], [base EXCEPT !.roughness = NaN],
          [base EXCEPT !.metalness = NaN], [base EXCEPT !.translucency = NaN]}
ChannelIndices == {0, 200, PaletteSize - 1}
ChannelVecs ==
    UNION {{ElementVec(PaletteSize, base, k, special) :
                k \in ChannelIndices, special \in ChannelSpecials(base)} :
            base \in ChannelBases}

----------------------------------------------------------------------------
(* The load: VoxSceneLoader::process_vox_file, and the palette constructor *)

NoFile == [palette |-> << >>, materials |-> << >>, models |-> << >>]

\* no load is running
LoadIdle ==
    /\ pc = "idle"
    /\ file = NoFile
    /\ settings = DefaultSettings
    /\ newArg = << >>
    /\ palette = << >>
    /\ ior_for_voxel = << >>
    /\ models = << >>
    /\ translucent_material = None
    /\ images = << >>
    /\ opaque_material = None
    /\ load_context = << >>
    /\ outcome = "none"

LoadInit ==
    /\ pc = "start"
    /\ file = NoFile
    /\ settings = DefaultSettings
    /\ newArg = << >>
    /\ palette = << >>
    /\ ior_for_voxel = << >>
    /\ models = << >>
    /\ translucent_material = None
    /\ images = << >>
    /\ opaque_material = None
    /\ load_context = << >>
    /\ outcome = "none"

\* dot_vox::load_bytes(bytes) returning Ok(data)
Decode ==
    /\ pc = "start"
    /\ \E f \in Files, g \in LoadGraphs :
        /\ GraphFits(g, Len(f.models))
        /\ file' = f
        /\ graph' = g
        /\ numModels' = Len(f.models)
    /\ pc' = "decoded"
    /\ UNCHANGED <<settings, newArg, palette, ior_for_voxel, models>>
    /\ UNCHANGED <<translucent_material, images, opaque_material, load_context, outcome>>
    /\ UNCHANGED <<spc, calls, named_models, model_names, final_names,
                   subasset_by_name, labeled_meshes, default_mesh>>
    /\ UNCHANGED editVars
    /\ UNCHANGED meshVars

\* a decode error after which the load goes on with an empty file
DecodeFailContinues ==
    /\ pc = "start"
    /\ pc' = "decoded"
    /\ outcome' = "decode_error"
    /\ file' = [palette |-> FilePalette, materials |-> << >>, models |-> << >>]
    /\ graph' = EmptyGraph
    /\ UNCHANGED <<settings, newArg, palette, ior_for_voxel, models>>
    /\ UNCHANGED <<translucent_material, images, opaque_material, load_context>>
    /\ UNCHANGED <<spc, numModels, calls, named_models, model_names, final_names,
                   subasset_by_name, labeled_meshes, default_mesh>>
    /\ UNCHANGED editVars
    /\ UNCHANGED meshVars

\* dot_vox::load_bytes(bytes) returning Err(error):
\* return Err(VoxLoaderError::InvalidAsset(anyhow!(error)))
DecodeFail ==
    /\ pc = "start"
    /\ pc' = "failed"
    /\ outcome' = "decode_error"
    /\ UNCHANGED <<file, settings, newArg, palette, ior_for_voxel, models>>
    /\ UNCHANGED <<translucent_material, images, opaque_material, load_context>>
    /\ UNCHANGED sceneVars
    /\ UNCHANGED editVars
    /\ UNCHANGED meshVars

\* VoxelPalette::new_from_data(&file, diffuse_roughness, emission_strength)
CompilePalette ==
    /\ pc = "decoded"
    /\ newArg' = ZipMap(file, settings.diffuse_roughness, settings.emission_strength)
    /\ palette' = NewFromData(file, settings.diffuse_roughness, settings.emission_strength)
    /\ pc' = "palette"
    /\ UNCHANGED <<file, settings, ior_for_voxel, models>>
    /\ UNCHANGED <<translucent_material, images, opaque_material, load_context, outcome>>
    /\ UNCHANGED sceneVars
    /\ UNCHANGED editVars
    /\ UNCHANGED meshVars

\* palette.create_material_in_load_context(load_context): every image is
\* registered under its name
CreateMaterialInLoadContext ==
    /\ pc = "palette"
    /\ LET r == CreateMaterial(palette)
       IN  IF r.panic
           THEN /\ pc' = "panicked"
                /\ outcome' = "panic"
                /\ UNCHANGED <<translucent_material, images, load_context>>
           ELSE /\ pc' = "material"
                /\ translucent_material' = Some(r.material)
                /\ images' = r.images
                /\ load_context' = load_context \o ImageNames(r.images)
                /\ UNCHANGED outcome
    /\ UNCHANGED <<file, settings, newArg, palette, ior_for_voxel, models, opaque_material>>
    /\ UNCHANGED sceneVars
    /\ UNCHANGED editVars
    /\ UNCHANGED meshVars

\* a direct call of the public constructor VoxelPalette::new(elements)
CallNew ==
    /\ pc = "start"
    /\ \E v \in ElementVecs :
        /\ newArg' = v
        /\ palette' = New(v)
    /\ pc' = "palette_api"
    /\ UNCHANGED <<file, settings, ior_for_voxel, models>>
    /\ UNCHANGED <<translucent_material, images, opaque_material, load_context, outcome>>
    /\ UNCHANGED sceneVars
    /\ UNCHANGED editVars
    /\ UNCHANGED meshVars

\* palette.ior_for_voxel()
IorStep ==
    /\ pc \in {"material", "palette_api"}
    /\ ior_for_voxel' = IorForVoxel(palette)
    /\ pc' = IF pc = "material" THEN "ior" ELSE "api_done"
    /\ UNCHANGED <<file, settings, newArg, palette, models>>
    /\ UNCHANGED <<translucent_material, images, opaque_material, load_context, outcome>>
    /\ UNCHANGED sceneVars
    /\ UNCHANGED editVars
    /\ UNCHANGED meshVars

\* the labels "material", "material-no-emission" and "material-palette".
\* palette.emission is no field of the VoxelPalette of palette.rs: whether it
\* is VariesPerElement is left open
PublishMaterials ==
    /\ pc = "ior"
    /\ opaque_material' = Some(OpaqueMaterial(translucent_material[1]))
    /\ \E varies_per_element \in BOOLEAN :
        load_context' = load_context \o <<"material">>
                            \o (IF varies_per_element
                                THEN <<"material-no-emission">> ELSE << >>)
                            \o <<"material-palette">>
    /\ pc' = "scene"
    /\ UNCHANGED <<file, settings, newArg, palette, ior_for_voxel, models>>
    /\ UNCHANGED <<translucent_material, images, outcome>>
    /\ UNCHANGED sceneVars
    /\ UNCHANGED editVars
    /\ UNCHANGED meshVars

\* the scene graph resolved: parse_xform_node(&file.scenes, &file.scenes[0], ..);
\* find_subasset_names(..); model_names = vec![None; file.models.len()];
\* find_model_names(..)
ResolveNames ==
    /\ pc = "scene"
    /\ subasset_by_name' = FindSubassetNames(graph)
    /\ model_names' = FindModelNames(numModels, graph)
    /\ pc' = "models"
    /\ UNCHANGED <<file, settings, newArg, palette, ior_for_voxel, models>>
    /\ UNCHANGED <<translucent_material, images, opaque_material, load_context, outcome>>
    /\ UNCHANGED <<spc, graph, numModels, calls, named_models, final_names,
                   labeled_meshes, default_mesh>>
    /\ UNCHANGED editVars
    /\ UNCHANGED meshVars

\* one iteration of the map over model_names.iter().zip(file.models)
LoadModel ==
    /\ pc = "models"
    /\ Len(models) < Len(file.models)
    /\ LET index == Len(models)
           model == At(file.models, index)
           name  == ModelName(At(model_names, index), index)
           ior   == VisibleVoxelsIor(model, ior_for_voxel)
           selected == SelectMaterial(name, model, ior)
       IN  /\ models' = Append(models,
                [index |-> index, material |-> selected,
                 descriptor |-> ModelMaterial(translucent_material[1], opaque_material[1], ior, model)])
           /\ final_names' = Append(final_names, name)
           /\ load_context' = load_context \o ModelLabels(name, selected)
    /\ UNCHANGED <<pc, file, settings, newArg, palette, ior_for_voxel>>
    /\ UNCHANGED <<translucent_material, images, opaque_material, outcome>>
    /\ UNCHANGED <<spc, graph, numModels, calls, named_models, model_names,
                   subasset_by_name, labeled_meshes, default_mesh>>
    /\ UNCHANGED editVars
    /\ UNCHANGED meshVars

\* the sub-scenes published and the scene returned while models are still to load
FinishEarly ==
    /\ pc = "models"
    /\ \E order \in Orders(DOMAIN subasset_by_name) :
        load_context' = load_context \o order
    /\ outcome' = "ok"
    /\ pc' = "done"
    /\ UNCHANGED <<file, settings, newArg, palette, ior_for_voxel, models>>
    /\ UNCHANGED <<translucent_material, images, opaque_material>>
    /\ UNCHANGED sceneVars
    /\ UNCHANGED editVars
    /\ UNCHANGED meshVars

\* for (subscene_name, node) in subasset_by_name { labeled_asset_scope(..) },
\* in the HashMap's order, then Ok(VoxelScene { root, layers, models })
Finish ==
    /\ pc = "models"
    /\ Len(models) = Len(file.models)
    /\ \E order \in Orders(DOMAIN subasset_by_name) :
        load_context' = load_context \o order
    /\ outcome' = "ok"
    /\ pc' = "done"
    /\ UNCHANGED <<file, settings, newArg, palette, ior_for_voxel, models>>
    /\ UNCHANGED <<translucent_material, images, opaque_material>>
    /\ UNCHANGED sceneVars
    /\ UNCHANGED editVars
    /\ UNCHANGED meshVars

Next ==
    \/ Decode \/ DecodeFail \/ CompilePalette \/ CreateMaterialInLoadContext
    \/ CallNew \/ IorStep \/ PublishMaterials \/ ResolveNames \/ LoadModel \/ Finish

\* VoxelPalette::new(elements) for the elements of a caller of create_material
NewElements ==
    /\ pc = "start"
    /\ \E v \in ChannelVecs :
        /\ newArg' = v
        /\ palette' = New(v)
    /\ pc' = "palette_api"
    /\ UNCHANGED <<file, settings, ior_for_voxel, models>>
    /\ UNCHANGED <<translucent_material, images, opaque_material, load_context, outcome>>
    /\ UNCHANGED sceneVars
    /\ UNCHANGED editVars
    /\ UNCHANGED meshVars

\* palette.create_material(&mut images): every image goes to Assets<Image>
CallCreateMaterial ==
    /\ pc = "palette_api"
    /\ LET r == CreateMaterial(palette)
       IN  IF r.panic
           THEN /\ pc' = "panicked"
                /\ outcome' = "panic"
                /\ UNCHANGED <<translucent_material, images>>
           ELSE /\ pc' = "material_api"
                /\ translucent_material' = Some(r.material)
                /\ images' = r.images
                /\ UNCHANGED outcome
    /\ UNCHANGED <<file, settings, newArg, palette, ior_for_voxel, models>>
    /\ UNCHANGED <<opaque_material, load_context>>
    /\ UNCHANGED sceneVars
    /\ UNCHANGED editVars
    /\ UNCHANGED meshVars

MaterialNext == NewElements \/ CallCreateMaterial

\* the scene-graph resolution is not running
SceneIdle ==
    /\ spc = "idle"
    /\ graph = << >>
    /\ numModels = 0
    /\ calls = << >>
    /\ named_models = << >>
    /\ model_names = << >>
    /\ final_names = << >>
    /\ subasset_by_name = EmptyMap
    /\ labeled_meshes = EmptyMap
    /\ default_mesh = None

Init == LoadInit /\ SceneIdle /\ EditIdle /\ MeshIdle

Spec == Init /\ [][Next]_vars

SpecMaterial == Init /\ [][MaterialNext]_vars

----------------------------------------------------------------------------
(* Scene-graph resolution as the two loaders run it *)

SceneInit ==
    /\ spc = "start"
    /\ graph \in Graphs
    /\ numModels \in ModelCounts
    /\ calls = << >>
    /\ named_models = << >>
    /\ model_names = << >>
    /\ final_names = << >>
    /\ subasset_by_name = EmptyMap
    /\ labeled_meshes = EmptyMap
    /\ default_mesh = None
    /\ LoadIdle
    /\ EditIdle
    /\ MeshIdle

\* VoxLoader::process_vox_file: parse_scene_graph(&file.scenes, &file.scenes[0], &None),
\* then the loop that meshes and labels every named model
ParseScene ==
    /\ spc = "start"
    /\ LET r == ParseSceneGraph(graph, 0, None)
           l == LabelMeshes([labels |-> EmptyMap, default_mesh |-> None],
                            r.named, numModels, 1)
       IN  /\ named_models' = r.named
           /\ calls' = r.calls
           /\ labeled_meshes' = l.labels
           /\ default_mesh' = l.default_mesh
    /\ spc' = "parsed"
    /\ UNCHANGED <<graph, numModels, model_names, final_names, subasset_by_name>>
    /\ UNCHANGED loadVars
    /\ UNCHANGED editVars
    /\ UNCHANGED meshVars

\* VoxSceneLoader::process_vox_file: subasset_by_name, model_names, then the
\* name of every model
NameModels ==
    /\ spc = "parsed"
    /\ subasset_by_name' = FindSubassetNames(graph)
    /\ LET found == FindModelNames(numModels, graph)
       IN  /\ model_names' = found
           /\ final_names' = [k \in 1..numModels |-> ModelName(found[k], k - 1)]
    /\ spc' = "named"
    /\ UNCHANGED <<graph, numModels, calls, named_models, labeled_meshes, default_mesh>>
    /\ UNCHANGED loadVars
    /\ UNCHANGED editVars
    /\ UNCHANGED meshVars

SceneNext == ParseScene \/ NameModels

SpecScene == SceneInit /\ [][SceneNext]_vars

----------------------------------------------------------------------------
(* The edit commands as the example issues them *)

EditInit ==
    /\ grid \in Grids
    /\ voxel_model = LoadedModel
    /\ queue = << >>
    /\ issued = 0
    /\ before = [grid |-> NoGrid, model |-> NoModel]
    /\ last = << >>
    /\ result = [status |-> "none", visited |-> 0]
    /\ LoadIdle
    /\ SceneIdle
    /\ MeshIdle

\* update_snow for one snowflake that crossed into the voxel vox_pos: when the
\* voxel below it is solid, queue the edit of the flake's region
UpdateSnow ==
    /\ issued < MaxEdits
    /\ \E vox_pos \in SnowPositions :
        /\ GetVoxelAtPoint(grid, BelowOf(vox_pos)) # None
        /\ GetVoxelAtPoint(grid, BelowOf(vox_pos))[1] # EMPTY
        /\ queue' = Append(queue, [region |-> FlakeRegion(vox_pos),
                                   f |-> [kind |-> "snow", vox_pos |-> vox_pos]])
    /\ issued' = issued + 1
    /\ UNCHANGED <<grid, voxel_model, before, last, result>>
    /\ UNCHANGED loadVars
    /\ UNCHANGED sceneVars
    /\ UNCHANGED meshVars

\* commands.modify_voxel_model(instance, VoxelRegionMode::Box(region), f)
\* with a region and a function of the caller's choice
ModifyVoxelModel ==
    /\ issued < MaxEdits
    /\ \E region \in RegionSamples, f \in EditFunctions :
        queue' = Append(queue, [region |-> region, f |-> f])
    /\ issued' = issued + 1
    /\ UNCHANGED <<grid, voxel_model, before, last, result>>
    /\ UNCHANGED loadVars
    /\ UNCHANGED sceneVars
    /\ UNCHANGED meshVars

\* the Region Editor applies the first queued command
ApplyEdit ==
    /\ queue # << >>
    /\ LET cmd == Head(queue)
       IN  /\ last' = Some(cmd)
           /\ before' = [grid |-> grid, model |-> voxel_model]
           /\ IF RegionIsValid(cmd.region)
              THEN /\ \E order \in VisitOrders(RegionCoords(cmd.region, grid)) :
                        /\ grid' = ScanRegion(cmd.f, grid, grid, order, 1)
                        /\ result' = [status |-> "applied", visited |-> Len(order)]
                   /\ voxel_model' = EditedModel(voxel_model)
              ELSE /\ UNCHANGED <<grid, voxel_model>>
                   /\ result' = [status |-> "noop", visited |-> 0]
    /\ queue' = Tail(queue)
    /\ UNCHANGED issued
    /\ UNCHANGED loadVars
    /\ UNCHANGED sceneVars
    /\ UNCHANGED meshVars

EditNext == UpdateSnow \/ ModifyVoxelModel \/ ApplyEdit

SpecEdit == EditInit /\ [][EditNext]_vars

----------------------------------------------------------------------------
(* The meshing of one model *)

MeshInit ==
    /\ mpc = "start"
    /\ mesh_input = NoMeshInput
    /\ outer_faces = TRUE
    /\ mesh = << >>
    /\ LoadIdle
    /\ SceneIdle
    /\ EditIdle

\* process_vox_file hands one model of the file and settings.mesh_outer_faces
\* to load_from_model
TakeModel ==
    /\ mpc = "start"
    /\ mesh_input' \in MeshInputs
    /\ outer_faces' \in BOOLEAN
    /\ mpc' = "loaded"
    /\ UNCHANGED mesh
    /\ UNCHANGED <<loadVars, sceneVars, editVars>>

\* load_from_model, then mesh_model under the label <name>@mesh
MeshStep ==
    /\ mpc = "loaded"
    /\ mesh' = Some(MeshModel(mesh_input.voxels, outer_faces))
    /\ mpc' = "meshed"
    /\ UNCHANGED <<mesh_input, outer_faces>>
    /\ UNCHANGED <<loadVars, sceneVars, editVars>>

MeshNext == TakeModel \/ MeshStep

SpecMesh == MeshInit /\ [][MeshNext]_vars

----------------------------------------------------------------------------
(* Claims about the palette and the load *)

PaletteBuilt ==
    pc \in {"palette", "palette_api", "material", "panicked", "ior", "scene", "models",
            "done", "api_done"}
IorBuilt == pc \in {"ior", "scene", "models", "done", "api_done"}

\* C1: VoxelPalette::new(elements) returns exactly 256 elements for an input of
\* any length n: the first min(n, 256) are the input's, in order, and every
\* other slot holds the default element (pink, emission 0, translucency 0).
C1_PaletteHas256 ==
    PaletteBuilt =>
        LET e == palette.elements
            n == IF Len(newArg) < 256 THEN Len(newArg) ELSE 256
        IN  /\ DOMAIN e = 1..256
            /\ \A i \in 0..(n - 1) : At(e, i) = At(newArg, i)
            /\ \A i \in n..255 :
                /\ At(e, i).color = <<255, 20, 147, 255>>
                /\ At(e, i).emission = 0
                /\ At(e, i).translucency = 0

\* an input longer than 256 has been truncated, its element 255 kept
C1_Witness ==
    /\ pc = "palette_api"
    /\ Len(newArg) > 256
    /\ Len(palette.elements) = 256
    /\ At(palette.elements, 255) = At(newArg, 255)

\* C2: the keys of ior_for_voxel() are exactly the palette indices 0..255 whose
\* element has translucency > 0, each mapped to that element's refraction
\* index; an index with translucency 0 is absent.
C2_IorKeys ==
    IorBuilt =>
        /\ DOMAIN ior_for_voxel =
                {i \in 0..255 : At(palette.elements, i).translucency > 0}
        /\ \A i \in DOMAIN ior_for_voxel :
                ior_for_voxel[i] = At(palette.elements, i).refraction_index

\* a palette with a translucent element at 200 and an opaque one at 0
C2_Witness ==
    /\ IorBuilt
    /\ 200 \in DOMAIN ior_for_voxel
    /\ ior_for_voxel[200] = 13000
    /\ 0 \notin DOMAIN ior_for_voxel
    /\ At(palette.elements, 0).translucency = 0

Loaded == pc \in {"ior", "scene", "models", "done"}
MaterialAt(i) == At(file.materials, i)
OpacityZeroAbsent ==
    \A i \in 0..255 :
        (i < Len(file.materials) /\ MaterialAt(i).opacity = Some(0))
            => i \notin DOMAIN ior_for_voxel

\* C3 as stated: a material table that marks index 200 with opacity 0.5 and
\* refraction 1.3 yields ior_for_voxel()[200] = 1.3, and no index of opacity 0
\* is in the map.
C3_Original ==
    (/\ Loaded
     /\ Len(file.materials) > 200
     /\ MaterialAt(200).opacity = Some(5000)
     /\ MaterialAt(200).refractive_index = Some(13000))
        => /\ 200 \in DOMAIN ior_for_voxel
           /\ ior_for_voxel[200] = 13000
           /\ OpacityZeroAbsent

\* C3 amended: with opacity 0.5 at index 200 the map holds 200, with the value
\* 1.0 + r for a material of type _glass whose stored refractive index is r
\* and 0.0 for any other type; no index of opacity 0 is in the map.
C3_IorAt200 ==
    (/\ Loaded
     /\ Len(file.materials) > 200
     /\ MaterialAt(200).opacity = Some(5000))
        => /\ 200 \in DOMAIN ior_for_voxel
           /\ ior_for_voxel[200] =
                IF MaterialAt(200).material_type = <<"_glass">>
                THEN 10000 + (IF MaterialAt(200).refractive_index = << >>
                              THEN 0 ELSE MaterialAt(200).refractive_index[1])
                ELSE 0
           /\ OpacityZeroAbsent

\* a glass material at 200 with stored refractive index 1.3 gives 2.3, beside
\* a material of opacity 0 that the map leaves out
C3_Witness ==
    /\ Loaded
    /\ Len(file.materials) > 200
    /\ MaterialAt(200).opacity = Some(5000)
    /\ MaterialAt(200).refractive_index = Some(13000)
    /\ MaterialAt(200).material_type = <<"_glass">>
    /\ ior_for_voxel[200] = 23000
    /\ MaterialAt(0).opacity = Some(0)
    /\ 0 \notin DOMAIN ior_for_voxel

----------------------------------------------------------------------------
(* Claims about the scene-graph resolution *)

Parsed == spc \in {"parsed", "named"}
NodeOfCall(i) == At(graph, calls[i].node)
IsKindAt(n, k) == n < Len(graph) /\ At(graph, n).kind = k

\* the combination of an inherited and a declared name, case by case
JoinedName(parent, local) ==
    IF parent = << >> /\ local = << >> THEN << >>
    ELSE IF parent = << >> THEN local
    ELSE IF local = << >> THEN parent
    ELSE <<parent[1] \o "-" \o local[1]>>

RootIsA == IsKindAt(0, "Transform") /\ At(graph, 0).name = <<"A">>
RootChild == At(graph, 0).child

\* Transform "A" over a Group over Shapes: every model of those Shapes is "A"
GroupKeepsA ==
    (RootIsA /\ IsKindAt(RootChild, "Group")
        /\ \A j \in 1..Len(At(graph, RootChild).children) :
                IsKindAt(At(graph, RootChild).children[j], "Shape"))
        => /\ \A j \in 1..Len(named_models) : named_models[j].name = "A"
           /\ \A i \in 3..Len(calls) : calls[i].node_name = <<"A">>

\* a Group hands the name that reached it to every child
GroupPassesName ==
    \A i \in 1..Len(calls) :
        NodeOfCall(i).kind = "Group" =>
            \A j \in 1..Len(NodeOfCall(i).children) :
                \E k \in (i + 1)..Len(calls) :
                    /\ calls[k].node = NodeOfCall(i).children[j]
                    /\ calls[k].node_name = calls[i].node_name

RootShapeHasLocalB ==
    /\ RootIsA
    /\ IsKindAt(RootChild, "Shape")
    /\ At(graph, RootChild).models = <<[model_id |-> 0, name |-> <<"B">>]>>

ShapeCallModels(i) ==
    IF NodeOfCall(i).kind = "Shape" THEN Len(NodeOfCall(i).models) ELSE 0

\* the number of model references of the Shapes reached before call i
RECURSIVE ModelsBefore(_)
ModelsBefore(i) == IF i <= 1 THEN 0 ELSE ModelsBefore(i - 1) + ShapeCallModels(i - 1)

Decimal(n) ==
    <<"0", "1", "2", "3", "4", "5", "6", "7", "8", "9", "10", "11", "12">>[n + 1]

\* every model reference of every Shape reached is named, in traversal order:
\* the name that reached the Shape, or prefix followed by the model's number
ReferencesNamed(prefix) ==
    /\ Len(named_models) = ModelsBefore(Len(calls) + 1)
    /\ \A i \in 1..Len(calls) :
        \A j \in 1..ShapeCallModels(i) :
            LET ref == NodeOfCall(i).models[j]
            IN  named_models[ModelsBefore(i) + j] =
                    [name |-> IF calls[i].node_name # << >>
                              THEN calls[i].node_name[1]
                              ELSE prefix \o Decimal(ref.model_id),
                     id |-> ref.model_id]

\* the name VoxSceneLoader labels the sub-assets of each model index with
IndexNames ==
    spc = "named" =>
        /\ Len(final_names) = numModels
        /\ \A k \in 0..(numModels - 1) :
            /\ At(final_names, k) =
                    IF At(model_names, k) # << >>
                    THEN At(model_names, k)[1]
                    ELSE "model-" \o Decimal(k)
            /\ At(model_names, k) # << >> =>
                    \E i \in 1..Len(calls) :
                        /\ calls[i].node_name = At(model_names, k)
                        /\ \E j \in 1..ShapeCallModels(i) :
                                NodeOfCall(i).models[j].model_id = k
            /\ At(model_names, k) = << >> =>
                    \A i \in 1..Len(calls) :
                        \A j \in 1..ShapeCallModels(i) :
                            NodeOfCall(i).models[j].model_id = k
                                => calls[i].node_name = << >>

----------------------------------------------------------------------------
(* Claims about the mesh *)

Meshed == mpc = "meshed"
Size == mesh_input.size
FullySolid ==
    /\ \A c \in DOMAIN mesh_input.voxels : mesh_input.voxels[c] # 0
    /\ \A c, e \in DOMAIN mesh_input.voxels : mesh_input.voxels[c] = mesh_input.voxels[e]

\* the face lies on the surface of the cuboid
OnSurface(f) ==
    LET a == CHOOSE k \in 1..3 : f.dir[k] # 0
    IN  IF f.dir[a] = 1 THEN f.cell[a] = Size[a] - 1 ELSE f.cell[a] = 0

\* C16: a fully solid cuboid of one material meshed without outer faces has
\* no visible face and an empty mesh, which is a result and no error; meshed
\* with outer faces it shows exactly the faces on its surface, merged into six
\* quads, one for each side and as large as the side.
C16_SolidCuboid ==
    (Meshed /\ FullySolid) =>
        /\ mesh # << >>
        /\ ~outer_faces =>
                /\ mesh[1].faces = {}
                /\ mesh[1].quads = {}
                /\ mesh[1].vertices = 0 /\ mesh[1].indices = 0
        /\ outer_faces =>
                /\ \A f \in mesh[1].faces : OnSurface(f)
                /\ Cardinality(mesh[1].faces) =
                        2 * (Size[1] * Size[2] + Size[2] * Size[3] + Size[1] * Size[3])
                /\ Cardinality(mesh[1].quads) = 6
                /\ \A q \in mesh[1].quads :
                        q.width * q.height * Size[CHOOSE k \in 1..3 : q.dir[k] # 0]
                            = Size[1] * Size[2] * Size[3]
                /\ \A q, r \in mesh[1].quads : q.dir = r.dir => q = r

\* the solid 2x2x2 cube with outer faces: 24 faces in six quads of 2x2; the
\* same cube without them has an empty mesh
C16_Witness ==
    /\ Meshed /\ FullySolid
    /\ Size = <<2, 2, 2>>
    /\ outer_faces
    /\ Cardinality(mesh[1].faces) = 24
    /\ Cardinality(mesh[1].quads) = 6
    /\ \A q \in mesh[1].quads : q.width = 2 /\ q.height = 2
    /\ mesh[1].vertices = 24 /\ mesh[1].indices = 36

----------------------------------------------------------------------------
(* Claims about what a load publishes *)

Done == pc = "done"
Published(label) == \E i \in 1..Len(load_context) : load_context[i] = label
TimesPublished(label) ==
    Cardinality({i \in 1..Len(load_context) : load_context[i] = label})

\* model j of the file (from 1) has a voxel whose palette element is translucent
HasTranslucentVoxel(j) ==
    \E v \in file.models[j].voxels : At(palette.elements, v).translucency > 0

C13_DecodeFailurePublishesNothing ==
    outcome = "decode_error" =>
        /\ pc = "failed"
        /\ load_context = << >>
        /\ images = << >>
        /\ palette = << >>
        /\ translucent_material = << >>
        /\ opaque_material = << >>
        /\ models = << >>
        /\ subasset_by_name = EmptyMap

\* the load has ended with the decode error
C13_Witness ==
    /\ pc = "failed"
    /\ outcome = "decode_error"
    /\ load_context = << >>

\* C14 as stated: a decoded file with zero models is a load failure; no
\* scene with an empty model list is returned.
C14_Original ==
    (Done /\ Len(file.models) = 0) => outcome # "ok"

\* a file with no model has been loaded: the scene returned has no model
C14_Witness ==
    /\ Done
    /\ Len(file.models) = 0
    /\ outcome = "ok"
    /\ models = << >>
    /\ Published("material-palette")

MaterialFields ==
    {"base_color_texture", "emissive", "emissive_texture", "perceptual_roughness",
     "metallic", "metallic_roughness_texture", "specular_transmission",
     "specular_transmission_texture", "ior", "thickness"}
TransmissionFields == {"specular_transmission", "specular_transmission_texture"}

\* C20: the opaque material is the translucent one with the transmission
\* forced to zero: specular_transmission 0, no transmission texture, every
\* other field equal; when a palette element is translucent the translucent
\* material has a transmission above zero, and the material of a model with
\* a translucent voxel keeps its base colour, emissive, roughness and
\* metalness factors and textures.
C20_OpaqueVariant ==
    opaque_material # << >> =>
        LET o == opaque_material[1]
            t == translucent_material[1]
        IN  /\ o.specular_transmission = 0
            /\ o.specular_transmission_texture = << >>
            /\ DOMAIN o = MaterialFields /\ DOMAIN t = MaterialFields
            /\ \A f \in MaterialFields \ TransmissionFields : o[f] = t[f]
            /\ (\E i \in 1..256 : palette.elements[i].translucency > 0)
                    => t.specular_transmission > 0
            /\ \A j \in 1..Len(models) :
                    IF HasTranslucentVoxel(j)
                    THEN \A f \in MaterialFields \ {"ior", "thickness"} :
                            models[j].descriptor[f] = t[f]
                    ELSE models[j].descriptor = o

\* a palette with one translucent element: the translucent material has the
\* transmission texture, the opaque one has none, and the file's two models
\* use one each
C20_Witness ==
    /\ Done
    /\ translucent_material[1].specular_transmission_texture =
            <<"material_specular_transmission">>
    /\ translucent_material[1].specular_transmission = 10000
    /\ opaque_material[1].specular_transmission = 0
    /\ Len(models) = 2
    /\ models[1].descriptor.specular_transmission = 10000
    /\ models[2].descriptor = opaque_material[1]

----------------------------------------------------------------------------
(* Claims about the order of the steps of a load *)

\* the file has been decoded; the palette has been compiled from it
Decoded == pc \in {"decoded", "palette", "material", "ior", "scene", "models", "done"}
PaletteCompiled == pc \in {"palette", "material", "ior", "scene", "models", "done"}
\* the scene graph has been resolved into sub-asset names and model names
SceneResolved == pc \in {"models", "done"}
\* the models grid-loaded and meshed so far, and whether that is all of them
ModelsLoaded == Len(models)
EveryModelLoaded == Len(models) = Len(file.models)

\* C21 as stated: no model is grid-loaded or meshed before the palette is
\* compiled, and the scene graph is resolved only after every model has been
\* grid-loaded and meshed.
C21_Original ==
    /\ (ModelsLoaded > 0 => PaletteCompiled)
    /\ (SceneResolved => EveryModelLoaded)

\* C21: within one load the steps run in the order decode, palette compile,
\* scene-graph resolve, grid-load and mesh of every model in index order,
\* publication of the sub-scenes: no model is grid-loaded or meshed before the
\* palette is compiled and the scene graph is resolved, and the load ends only
\* after every model has been grid-loaded and meshed.
C21_StepOrder ==
    /\ (PaletteCompiled => Decoded)
    /\ (pc = "palette" =>
            palette = NewFromData(file, settings.diffuse_roughness,
                                  settings.emission_strength))
    /\ (SceneResolved => PaletteCompiled)
    /\ (ModelsLoaded > 0 => SceneResolved)
    /\ (pc = "scene" => ModelsLoaded = 0)
    /\ \A j \in 1..ModelsLoaded : models[j].index = j - 1
    /\ (Done => EveryModelLoaded)
    /\ (~Done => \A name \in DOMAIN subasset_by_name : ~Published(name))

\* the scene graph is resolved, one model is loaded and another is still to load
C21_Witness ==
    /\ pc = "models"
    /\ SceneResolved
    /\ PaletteCompiled
    /\ ModelsLoaded = 1
    /\ Len(file.models) = 2
    /\ Published(final_names[1] \o "@mesh")

----------------------------------------------------------------------------
(* Claims about the material *)

\* _create_material has returned or panicked
MaterialTried == pc \in {"material_api", "panicked"}
MaterialCreated == pc = "material_api"
Elements == palette.elements

ChannelValue(i, ch) ==
    CASE ch = "emission" -> Elements[i].emission
      [] ch = "roughness" -> Elements[i].roughness
      [] ch = "metalness" -> Elements[i].metalness
      [] ch = "translucency" -> Elements[i].translucency
Channels == {"emission", "roughness", "metalness", "translucency"}
HasNaN == \E i \in 1..256, ch \in Channels : ChannelValue(i, ch) = NaN

\* the largest and the smallest value of a channel over the palette
Largest(ch) ==
    CHOOSE m \in {ChannelValue(i, ch) : i \in 1..256} :
        \A i \in 1..256 : ChannelValue(i, ch) <= m
Smallest(ch) ==
    CHOOSE m \in {ChannelValue(i, ch) : i \in 1..256} :
        \A i \in 1..256 : ChannelValue(i, ch) >= m
Range(ch) == Largest(ch) - Smallest(ch)
ImageNamed(n) == \E i \in 1..Len(images) : images[i].name = n

\* C15: a NaN emission, roughness, metalness or translucency at any palette
\* index makes _create_material panic: no material is returned and no image
\* is handed out; without a NaN it returns a material.
C15_NaNIsFatal ==
    MaterialTried =>
        /\ HasNaN <=> pc = "panicked"
        /\ pc = "panicked" =>
                /\ translucent_material = None
                /\ images = << >>
                /\ outcome = "panic"

\* a NaN metalness in the last palette element
C15_Witness ==
    /\ pc = "panicked"
    /\ Elements[256].metalness = NaN
    /\ \A i \in 1..255 : Elements[i].metalness # NaN
    /\ translucent_material = None

\* C17 as stated: the emissive texture is built only when the emission range
\* exceeds 0.001, and a uniform emission builds none.
C17_Original ==
    MaterialCreated =>
        (translucent_material[1].emissive_texture # None <=> Range("emission") > 10)

\* C17 amended: the emissive texture is built exactly when the largest
\* emission of the palette is above 0.0, uniform or not, and the emissive
\* factor is then white; when no element emits there is no emissive texture
\* and the emissive factor is black.
C17_EmissiveTexture ==
    MaterialCreated =>
        LET m == translucent_material[1]
        IN  IF Largest("emission") > 0
            THEN /\ m.emissive_texture = <<"material_emission">>
                 /\ ImageNamed("material_emission")
                 /\ m.emissive = "Color::WHITE"
            ELSE /\ m.emissive_texture = << >>
                 /\ ~ImageNamed("material_emission")
                 /\ m.emissive = "Color::BLACK"

\* every element emits 0.1: the emissive texture is built
C17_Witness ==
    /\ MaterialCreated
    /\ \A i \in 1..256 : Elements[i].emission = 1000
    /\ translucent_material[1].emissive_texture = <<"material_emission">>
    /\ ImageNamed("material_emission")

\* C18: the roughness/metalness texture is built exactly when the roughness
\* range or the metalness range exceeds 0.001; when none is built the
\* roughness and metalness factors are the palette's largest roughness and
\* metalness, within 0.001 of every element's.
C18_RoughnessMetalnessTexture ==
    MaterialCreated =>
        LET m == translucent_material[1]
        IN  IF Range("roughness") > 10 \/ Range("metalness") > 10
            THEN /\ m.metallic_roughness_texture = <<"material_metallic_roughness">>
                 /\ ImageNamed("material_metallic_roughness")
            ELSE /\ m.metallic_roughness_texture = << >>
                 /\ ~ImageNamed("material_metallic_roughness")
                 /\ m.perceptual_roughness = Largest("roughness")
                 /\ m.metallic = Largest("metalness")
                 /\ \A i \in 1..256 :
                        /\ m.perceptual_roughness - Elements[i].roughness \in 0..10
                        /\ m.metallic - Elements[i].metalness \in 0..10

\* a roughness range of exactly 0.001 and a uniform metalness: no texture
C18_Witness ==
    /\ MaterialCreated
    /\ Range("roughness") = 10
    /\ Range("metalness") = 0
    /\ translucent_material[1].metallic_roughness_texture = << >>
    /\ translucent_material[1].perceptual_roughness = Largest("roughness")

\* C19: the specular-transmission texture is built exactly when the
\* translucency range exceeds 0.001; otherwise there is none and the
\* specular_transmission factor is the palette's translucency: 0 for an
\* opaque palette, the common value for a uniformly translucent one.
C19_TransmissionTexture ==
    MaterialCreated =>
        LET m == translucent_material[1]
        IN  IF Range("translucency") > 10
            THEN /\ m.specular_transmission_texture = <<"material_specular_transmission">>
                 /\ ImageNamed("material_specular_transmission")
            ELSE /\ m.specular_transmission_texture = << >>
                 /\ ~ImageNamed("material_specular_transmission")
                 /\ m.specular_transmission = Largest("translucency")
                 /\ \A i \in 1..256 :
                        m.specular_transmission - Elements[i].translucency \in 0..10
                 /\ (\A i \in 1..256 : Elements[i].translucency = 0)
                        => m.specular_transmission = 0

\* every element has translucency 0.5: no texture, and the factor is 0.5
C19_Witness ==
    /\ MaterialCreated
    /\ \A i \in 1..256 : Elements[i].translucency = 5000
    /\ translucent_material[1].specular_transmission_texture = << >>
    /\ translucent_material[1].specular_transmission = 5000

----------------------------------------------------------------------------
(* Claims about the packing of the material values *)

PackedChannels == {"roughness", "metalness", "translucency"}

\* the image handed out under a name
ImageOf(n) == images[CHOOSE k \in 1..Len(images) : images[k].name = n]

\* the scalar factor and the texture the descriptor has for a channel
FactorOf(ch) ==
    CASE ch = "roughness" -> translucent_material[1].perceptual_roughness
      [] ch = "metalness" -> translucent_material[1].metallic
      [] ch = "translucency" -> translucent_material[1].specular_transmission
TextureOf(ch) ==
    IF ch = "translucency"
    THEN translucent_material[1].specular_transmission_texture
    ELSE translucent_material[1].metallic_roughness_texture

\* the entry of palette index i (from 1) in a channel's texture, before the
\* 16-bit quantisation: roughness in green, metalness in blue
Texel(ch, i) ==
    CASE ch = "roughness" -> ImageOf(TextureOf(ch)[1]).texels[i][2]
      [] ch = "metalness" -> ImageOf(TextureOf(ch)[1]).texels[i][3]
      [] ch = "translucency" -> ImageOf(TextureOf(ch)[1]).texels[i]

\* the value the descriptor yields for palette index i: the factor alone, or
\* the factor times the texture entry
Effective(ch, i) ==
    IF TextureOf(ch) = None
    THEN FactorOf(ch)
    ELSE (FactorOf(ch) * Texel(ch, i)) \div One

Abs(x) == IF x < 0 THEN 0 - x ELSE x

\* C22: for every palette index and each of roughness, metalness and
\* translucency, the value the material descriptor yields (the factor alone
\* without a texture, the factor times the texture entry with one, before
\* quantisation) is within 0.001 of the element's value, also when only one
\* of roughness and metalness varies and the two share one texture.
C22_PackingWithinEpsilon ==
    MaterialCreated =>
        \A ch \in PackedChannels, i \in 1..256 :
            Abs(Effective(ch, i) - ChannelValue(i, ch)) <= Epsilon

\* only the roughness varies, the metalness is uniform and not zero: the
\* shared texture is built and carries the metalness of every index
C22_Witness ==
    /\ MaterialCreated
    /\ Range("roughness") > Epsilon
    /\ Range("metalness") = 0
    /\ Largest("metalness") > 0
    /\ TextureOf("metalness") = <<"material_metallic_roughness">>
    /\ FactorOf("metalness") = One
    /\ \A i \in 1..256 : Effective("metalness", i) = Elements[i].metalness

----------------------------------------------------------------------------
(* Claims about the name indexes *)

Named == spc = "named"

\* the composed name of the node reached by call i when it is a Transform
ComposedName(i) ==
    IF NodeOfCall(i).kind = "Transform"
    THEN JoinedName(calls[i].node_name, NodeOfCall(i).name)
    ELSE << >>

\* the calls that reach a named Transform node
NamedCalls == {i \in 1..Len(calls) : ComposedName(i) # << >>}

----------------------------------------------------------------------------
(* Claims about the region edit *)

Edited == result.status # "none"
LastRegion == last[1].region
LastFn == last[1].f
InLastRegion(p) ==
    \A a \in 1..3 :
        LastRegion.origin[a] <= p[a] /\ p[a] < LastRegion.origin[a] + LastRegion.size[a]

\* what the function of the last edit returns at p when it reads the grid as
\* the edit found it
FromStartGrid(p) ==
    LET b == before.grid
        below == <<p[1], p[2] - 1, p[3]>>
        d == LET c == LastFn.vox_pos
             IN  (p[1] - c[1]) * (p[1] - c[1]) + (p[2] - c[2]) * (p[2] - c[2])
                    + (p[3] - c[3]) * (p[3] - c[3])
    IN  IF LastFn.kind = "snow"
        THEN IF b[p] = 0 /\ d <= 4 /\ below \in DOMAIN b /\ b[below] # 0
             THEN 234 ELSE b[p]
        ELSE IF b[p] # 0 THEN 5 ELSE b[p]

\* C5: within one region edit the function never sees a write of the same
\* edit: every cell of the region ends as the function's value on the grid as
\* it was when the edit started, whatever the order of the visit.
C5_ReadsStartGrid ==
    result.status = "applied" =>
        \A p \in DOMAIN before.grid :
            InLastRegion(p) => grid[p] = FromStartGrid(p)

\* snow lands on the solid cell below the flake and does not stack on itself:
\* the empty cell above the new snow stays empty
C5_Witness ==
    /\ result.status = "applied"
    /\ LastFn = [kind |-> "snow", vox_pos |-> <<0, 1, 0>>]
    /\ before.grid[<<0, 0, 0>>] = 1
    /\ before.grid[<<0, 1, 0>>] = 0
    /\ before.grid[<<0, 2, 0>>] = 0
    /\ InLastRegion(<<0, 2, 0>>)
    /\ grid[<<0, 1, 0>>] = 234
    /\ grid[<<0, 2, 0>>] = 0

C7_DegenerateRegionNoOp ==
    (Edited /\ \E a \in 1..3 : LastRegion.size[a] <= 0)
        => /\ result = [status |-> "noop", visited |-> 0]
           /\ grid = before.grid
           /\ voxel_model = before.model

\* a fill edit over a region of height -1 on a model with a solid cell
C7_Witness ==
    /\ result.status = "noop"
    /\ LastRegion.size = <<2, 0 - 1, 1>>
    /\ LastFn.kind = "fill"
    /\ \E p \in DOMAIN grid : grid[p] = 1
    /\ voxel_model.mesh.version = 0

====
